---- MODULE Spec2Model ----
(***************************************************************************)
(* A model of the idb JSON layer (src/unnamed/part_000): writeJson,        *)
(* readJson, deleteKey, readMultipleRecords, deleteMultipleRecords and the *)
(* polling observers onNewRecord / onNewRecordWithLog, running against one *)
(* IndexedDB database.  The host engine is modelled by what the code uses  *)
(* of it: the FIFO of open requests with the upgrade hook, transactions    *)
(* with a scope and a mode that work on a private view and publish it on   *)
(* commit, the key generator of the changeLog store, and forward cursors.  *)
(***************************************************************************)
EXTENDS Naturals, Sequences, FiniteSets, TLC

\* ------------------------------------------------------------- bounds
\* The number of changeLog entries (committed plus in-flight writes).
MaxLog == 2

\* ---------------------------------------------------------- constants
\* openDb's default version argument.
Version == 1

Procs == {"p1", "p2"}
Obs == "obs"
StoreNames == {"kv"}
KeyOrder == <<"k1", "k2">>
Keys == {KeyOrder[i] : i \in 1..Len(KeyOrder)}
\* JSON values: the records {id: n} of the tests.
Values == {[id |-> 1], [id |-> 2]}
\* What get() yields for a missing key.
Undefined == [undefined |-> TRUE]
Filters == {"all", "idGt1", "throwsOnId2"}
ObserverKinds == {"onNewRecord", "onNewRecordWithLog"}

VARIABLES
    dbVersion,         \* 0: the database does not exist yet
    objectStoreNames,  \* the object stores of the database
    store,             \* committed records: [StoreNames -> [Keys -> value or Undefined]]
    changeLog,         \* committed changeLog entries, in key (id) order
    keyGen,            \* the changeLog key generator's current number
    openQ,             \* pending indexedDB.open requests, oldest first
    txOrder,           \* live transactions' owners, in creation order
    call,              \* [Procs -> the caller's current call]
    obs,               \* the observer
    notified,          \* what the observer's callback received, in order
    writesOk,          \* history: the number of writeJson calls that resolved
    last,              \* history: the last committed mutation of each key
    remain             \* history: what a resolved deleteMultipleRecords left

vars == <<dbVersion, objectStoreNames, store, changeLog, keyGen, openQ, txOrder,
          call, obs, notified, writesOk, last, remain>>

\* ------------------------------------------------------------ helpers
EmptyStore == [k \in Keys |-> Undefined]

NoView == [store |-> [c \in StoreNames |-> EmptyStore], changeLog |-> <<>>, keyGen |-> 0]

IdleCall ==
    [op |-> "none", storeName |-> "none", key |-> "none", value |-> Undefined,
     filterFn |-> "none", status |-> "none", result |-> Undefined, db |-> "none",
     tx |-> "none", queue |-> <<>>, view |-> NoView, cur |-> 0, records |-> <<>>,
     expect |-> [by |-> "none", value |-> Undefined], before |-> Undefined,
     matches |-> <<>>, remaining |-> <<>>]

NoLast == [by |-> "none", value |-> Undefined]

IdleObs ==
    [kind |-> "none", pc |-> "off", db |-> "none", tx |-> "none", view |-> NoView,
     cur |-> 0, seenChanges |-> {}, n0 |-> 0, nscan |-> 0, passes |-> 0]

\* filterFn(value): does the predicate throw, and if not what does it return.
FilterThrows(f, v) == f = "throwsOnId2" /\ v.id = 2

FilterHolds(f, v) ==
    CASE f = "all" -> TRUE
      [] f = "idGt1" -> v.id > 1
      [] f = "throwsOnId2" -> TRUE
      [] OTHER -> FALSE

\* The scope and mode of the transaction each operation opens.
Scope(op, c) == IF op = "writeJson" THEN {c, "changeLog"} ELSE {c}

Mode(op) ==
    IF op \in {"writeJson", "deleteKey", "deleteMultipleRecords"}
    THEN "readwrite" ELSE "readonly"

OwnerScope(w) ==
    IF w = Obs THEN {"changeLog"} ELSE Scope(call[w].op, call[w].storeName)

OwnerMode(w) == IF w = Obs THEN "readonly" ELSE Mode(call[w].op)

Index(s, w) == CHOOSE i \in 1..Len(s) : s[i] = w

InSeq(s, w) == \E i \in 1..Len(s) : s[i] = w

Remove(s, w) == SelectSeq(s, LAMBDA x : x # w)

\* Mutant of CanStart: a transaction starts at once, whatever read/write
\* transactions over the same stores are live.
CanStart_NoWait(w) == InSeq(txOrder, w)

\* Transaction scheduling: a transaction waits for every read/write
\* transaction created before it whose scope overlaps its own.  A read-only
\* transaction works on the snapshot it took when it started, so a later
\* read/write transaction need not wait for it.
CanStart(w) ==
    /\ InSeq(txOrder, w)
    /\ \A i \in 1..Len(txOrder) :
          (i < Index(txOrder, w)
           /\ OwnerMode(txOrder[i]) = "readwrite"
           /\ OwnerScope(txOrder[i]) \cap OwnerScope(w) # {})
          => FALSE

\* What a transaction sees when it starts: the committed state of its scope.
Snapshot(scope) ==
    [store |-> [c \in StoreNames |-> IF c \in scope THEN store[c] ELSE EmptyStore],
     changeLog |-> IF "changeLog" \in scope THEN changeLog ELSE <<>>,
     keyGen |-> IF "changeLog" \in scope THEN keyGen ELSE 0]

\* A call is in flight from the call until its promise has settled and its
\* transaction has finished.
TxLive(r) == r.tx \in {"created", "active"}

Free(p) == call[p].status \in {"none", "resolved", "rejected"} /\ ~TxLive(call[p])

Mutating(r) ==
    r.op \in {"writeJson", "deleteKey", "deleteMultipleRecords"}
    /\ (r.status = "pending" \/ TxLive(r))

WritesInFlight ==
    Cardinality({p \in Procs : call[p].op = "writeJson" /\ call[p].status = "pending"})

\* The upgrade hook of openDb runs when the database is created (or older
\* than the requested version) and creates the stores that are missing.
\* indexedDB.open(dbName) without a hook only creates the empty database.
openDbStores(c) ==
    IF dbVersion < Version THEN objectStoreNames \cup {c} \cup {"changeLog"}
    ELSE objectStoreNames

\* The index in KeyOrder of the first record after position cur, or 0.
NextRecord(recs, cur) ==
    IF \E i \in (cur + 1)..Len(KeyOrder) : recs[KeyOrder[i]] # Undefined
    THEN CHOOSE i \in (cur + 1)..Len(KeyOrder) :
            /\ recs[KeyOrder[i]] # Undefined
            /\ \A j \in (cur + 1)..(i - 1) : recs[KeyOrder[j]] = Undefined
    ELSE 0

\* The values of a collection in key order, and those a filter selects.
InOrder(recs) ==
    SelectSeq([i \in 1..Len(KeyOrder) |-> recs[KeyOrder[i]]], LAMBDA v : v # Undefined)

Matching(recs, f) == SelectSeq(InOrder(recs), LAMBDA v : FilterHolds(f, v))

NotMatching(recs, f) == SelectSeq(InOrder(recs), LAMBDA v : ~FilterHolds(f, v))

TypeOK ==
    /\ dbVersion \in {0, Version}
    /\ objectStoreNames \subseteq (StoreNames \cup {"changeLog"})
    /\ store \in [StoreNames -> [Keys -> Values \cup {Undefined}]]
    /\ keyGen \in Nat
    /\ DOMAIN call = Procs

Init ==
    /\ dbVersion = 0
    /\ objectStoreNames = {}
    /\ store = [c \in StoreNames |-> EmptyStore]
    /\ changeLog = <<>>
    /\ keyGen = 0
    /\ openQ = <<>>
    /\ txOrder = <<>>
    /\ call = [p \in Procs |-> IdleCall]
    /\ obs = IdleObs
    /\ notified = <<>>
    /\ writesOk = 0
    /\ last = [c \in StoreNames |-> [k \in Keys |-> NoLast]]
    /\ remain = <<>>

hostVars == <<dbVersion, objectStoreNames, store, changeLog, keyGen>>
histVars == <<writesOk, last, remain>>
obsVars == <<obs, notified>>

\* ---------------------------------------------------- shared host steps
\* A new call by caller p; every mutating call ends what is known about the
\* outcome of an earlier deleteMultipleRecords.
Begin(p, r, mutates) ==
    /\ call' = [q \in Procs |->
                  IF q = p THEN r
                  ELSE IF mutates THEN [call[q] EXCEPT !.remaining = <<>>]
                  ELSE call[q]]
    /\ remain' = IF mutates THEN <<>> ELSE remain
    /\ openQ' = Append(openQ, p)

\* The committed state after a transaction with this view and scope commits.
Commit(view, scope) ==
    /\ store' = [c \in StoreNames |-> IF c \in scope THEN view.store[c] ELSE store[c]]
    /\ changeLog' = IF "changeLog" \in scope THEN view.changeLog ELSE changeLog
    /\ keyGen' = IF "changeLog" \in scope THEN view.keyGen ELSE keyGen
    /\ UNCHANGED <<dbVersion, objectStoreNames>>

\* The host starts a caller's transaction once the scheduling allows it.
TxStart(p) ==
    LET r == call[p] IN
    /\ r.tx = "created"
    /\ CanStart(p)
    /\ call' = [call EXCEPT ![p] =
                  [r EXCEPT !.tx = "active",
                            !.view = Snapshot(Scope(r.op, r.storeName)),
                            !.expect = IF r.op \in {"readJson", "deleteKey"}
                                       THEN last[r.storeName][r.key]
                                       ELSE NoLast,
                            !.before = IF r.op = "deleteKey"
                                       THEN store[r.storeName][r.key]
                                       ELSE Undefined,
                            !.matches = IF r.op = "readMultipleRecords"
                                        THEN Matching(store[r.storeName], r.filterFn)
                                        ELSE <<>>]]
    /\ UNCHANGED <<hostVars, openQ, txOrder, obsVars, histVars>>

\* openDb's req.onerror: the open request of writeJson, readJson or deleteKey
\* fails and the call rejects.
openDbError(p) ==
    /\ openQ # <<>> /\ Head(openQ) = p
    /\ call[p].op \in {"writeJson", "readJson", "deleteKey"}
    /\ call' = [call EXCEPT ![p].status = "rejected"]
    /\ openQ' = Tail(openQ)
    /\ UNCHANGED <<hostVars, txOrder, obsVars, histVars>>

\* ------------------------------------------------------------ writeJson
writeJson(p, c, k, v) ==
    /\ Free(p)
    /\ Len(changeLog) + WritesInFlight < MaxLog
    /\ Begin(p, [IdleCall EXCEPT !.op = "writeJson", !.storeName = c, !.key = k,
                                 !.value = v, !.status = "pending"], TRUE)
    /\ UNCHANGED <<hostVars, txOrder, obsVars, writesOk, last>>

\* openDb resolved: open the transaction over the store and changeLog and
\* queue the put and the add.  db.transaction throws when a store is missing.
writeJsonOpened(p) ==
    LET r == call[p]
        names == openDbStores(r.storeName)
    IN
    /\ openQ # <<>> /\ Head(openQ) = p
    /\ r.op = "writeJson"
    /\ dbVersion' = Version
    /\ objectStoreNames' = names
    /\ openQ' = Tail(openQ)
    /\ IF {r.storeName, "changeLog"} \subseteq names
       THEN /\ call' = [call EXCEPT ![p] =
                          [r EXCEPT !.db = "open", !.tx = "created",
                                    !.queue = <<"put", "add">>]]
            /\ txOrder' = Append(txOrder, p)
       ELSE /\ call' = [call EXCEPT ![p] = [r EXCEPT !.db = "open", !.status = "rejected"]]
            /\ txOrder' = txOrder
    /\ UNCHANGED <<store, changeLog, keyGen, obsVars, histVars>>

\* Mutant of writeJsonPut: the put runs outside the transaction and is
\* visible at once.
writeJsonPut_Direct(p) ==
    LET r == call[p] IN
    /\ r.op = "writeJson" /\ r.tx = "active"
    /\ r.queue # <<>> /\ Head(r.queue) = "put"
    /\ store' = [store EXCEPT ![r.storeName][r.key] = r.value]
    /\ call' = [call EXCEPT ![p] =
                  [r EXCEPT !.view.store[r.storeName][r.key] = r.value,
                            !.queue = Tail(r.queue)]]
    /\ UNCHANGED <<dbVersion, objectStoreNames, changeLog, keyGen, openQ, txOrder,
                   obsVars, histVars>>

\* Mutant of writeJsonPut: add() semantics, an existing record is kept.
writeJsonPut_NoOverwrite(p) ==
    LET r == call[p] IN
    /\ r.op = "writeJson" /\ r.tx = "active"
    /\ r.queue # <<>> /\ Head(r.queue) = "put"
    /\ call' = [call EXCEPT ![p] =
                  [r EXCEPT !.view.store[r.storeName][r.key] =
                                IF @ = Undefined THEN r.value ELSE @,
                            !.queue = Tail(r.queue)]]
    /\ UNCHANGED <<hostVars, openQ, txOrder, obsVars, histVars>>

\* tx.objectStore(storeName).put(value, key)
writeJsonPut(p) ==
    LET r == call[p] IN
    /\ r.op = "writeJson" /\ r.tx = "active"
    /\ r.queue # <<>> /\ Head(r.queue) = "put"
    /\ call' = [call EXCEPT ![p] =
                  [r EXCEPT !.view.store[r.storeName][r.key] = r.value,
                            !.queue = Tail(r.queue)]]
    /\ UNCHANGED <<hostVars, openQ, txOrder, obsVars, histVars>>

\* Mutant of writeJsonAdd: the log entry is not added.
writeJsonAdd_Missing(p) ==
    LET r == call[p] IN
    /\ r.op = "writeJson" /\ r.tx = "active"
    /\ r.queue # <<>> /\ Head(r.queue) = "add"
    /\ call' = [call EXCEPT ![p] = [r EXCEPT !.queue = Tail(r.queue)]]
    /\ UNCHANGED <<hostVars, openQ, txOrder, obsVars, histVars>>

\* Mutant of writeJsonAdd: put() under a fixed id instead of add(), so the
\* entry replaces what the log held.
writeJsonAdd_Put(p) ==
    LET r == call[p]
        entry == [id |-> 1, store |-> r.storeName, key |-> r.key, value |-> r.value]
    IN
    /\ r.op = "writeJson" /\ r.tx = "active"
    /\ r.queue # <<>> /\ Head(r.queue) = "add"
    /\ call' = [call EXCEPT ![p] =
                  [r EXCEPT !.view.changeLog = <<entry>>,
                            !.view.keyGen = 1,
                            !.queue = Tail(r.queue)]]
    /\ UNCHANGED <<hostVars, openQ, txOrder, obsVars, histVars>>

\* Mutant of writeJsonAdd: the call resolves when the add request has
\* succeeded, without waiting for the transaction to complete.
writeJsonAdd_ResolveEarly(p) ==
    LET r == call[p]
        id == r.view.keyGen + 1
        entry == [id |-> id, store |-> r.storeName, key |-> r.key, value |-> r.value]
    IN
    /\ r.op = "writeJson" /\ r.tx = "active"
    /\ r.queue # <<>> /\ Head(r.queue) = "add"
    /\ call' = [call EXCEPT ![p] =
                  [r EXCEPT !.view.changeLog = Append(r.view.changeLog, entry),
                            !.view.keyGen = id,
                            !.status = "resolved",
                            !.queue = Tail(r.queue)]]
    /\ UNCHANGED <<hostVars, openQ, txOrder, obsVars, histVars>>

\* tx.objectStore('changeLog').add({store, key, value}): the key generator
\* assigns the entry's id.
writeJsonAdd(p) ==
    LET r == call[p]
        id == r.view.keyGen + 1
        entry == [id |-> id, store |-> r.storeName, key |-> r.key, value |-> r.value]
    IN
    /\ r.op = "writeJson" /\ r.tx = "active"
    /\ r.queue # <<>> /\ Head(r.queue) = "add"
    /\ call' = [call EXCEPT ![p] =
                  [r EXCEPT !.view.changeLog = Append(r.view.changeLog, entry),
                            !.view.keyGen = id,
                            !.queue = Tail(r.queue)]]
    /\ UNCHANGED <<hostVars, openQ, txOrder, obsVars, histVars>>

\* The transaction commits: tx.oncomplete resolves txDone, db.close().
writeJsonComplete(p) ==
    LET r == call[p] IN
    /\ r.op = "writeJson" /\ r.tx = "active" /\ r.queue = <<>>
    /\ Commit(r.view, Scope(r.op, r.storeName))
    /\ call' = [call EXCEPT ![p] =
                  [r EXCEPT !.tx = "complete", !.status = "resolved",
                            !.db = "closed", !.view = NoView]]
    /\ txOrder' = Remove(txOrder, p)
    /\ writesOk' = writesOk + 1
    /\ last' = [last EXCEPT ![r.storeName][r.key] = [by |-> "writeJson", value |-> r.value]]
    /\ UNCHANGED <<openQ, obsVars, remain>>

\* Mutant of writeJsonAbort: the abort does not roll back the put, as if the
\* record and the log entry were written in separate transactions.
writeJsonAbort_KeepsPut(p) ==
    LET r == call[p] IN
    /\ r.op = "writeJson" /\ TxLive(r)
    /\ store' = IF r.tx = "active"
                THEN [store EXCEPT ![r.storeName] = r.view.store[r.storeName]]
                ELSE store
    /\ call' = [call EXCEPT ![p] =
                  [r EXCEPT !.tx = "aborted", !.status = "rejected",
                            !.queue = <<>>, !.view = NoView]]
    /\ txOrder' = Remove(txOrder, p)
    /\ UNCHANGED <<dbVersion, objectStoreNames, changeLog, keyGen, openQ, obsVars,
                   histVars>>

\* The transaction aborts or errors: txDone rejects, db.close() is not reached.
writeJsonAbort(p) ==
    LET r == call[p] IN
    /\ r.op = "writeJson" /\ TxLive(r)
    /\ call' = [call EXCEPT ![p] =
                  [r EXCEPT !.tx = "aborted", !.status = "rejected",
                            !.queue = <<>>, !.view = NoView]]
    /\ txOrder' = Remove(txOrder, p)
    /\ UNCHANGED <<hostVars, openQ, obsVars, histVars>>

\* ------------------------------------------------------------- readJson
readJson(p, c, k) ==
    /\ Free(p)
    /\ Begin(p, [IdleCall EXCEPT !.op = "readJson", !.storeName = c, !.key = k,
                                 !.status = "pending"], FALSE)
    /\ UNCHANGED <<hostVars, txOrder, obsVars, writesOk, last>>

readJsonOpened(p) ==
    LET r == call[p]
        names == openDbStores(r.storeName)
    IN
    /\ openQ # <<>> /\ Head(openQ) = p
    /\ r.op = "readJson"
    /\ dbVersion' = Version
    /\ objectStoreNames' = names
    /\ openQ' = Tail(openQ)
    /\ IF r.storeName \in names
       THEN /\ call' = [call EXCEPT ![p] =
                          [r EXCEPT !.db = "open", !.tx = "created", !.queue = <<"get">>]]
            /\ txOrder' = Append(txOrder, p)
       ELSE /\ call' = [call EXCEPT ![p] = [r EXCEPT !.db = "open", !.status = "rejected"]]
            /\ txOrder' = txOrder
    /\ UNCHANGED <<store, changeLog, keyGen, obsVars, histVars>>

\* tx.objectStore(storeName).get(key) succeeds: requestToPromise resolves.
readJsonGet(p) ==
    LET r == call[p] IN
    /\ r.op = "readJson" /\ r.tx = "active"
    /\ r.queue # <<>> /\ Head(r.queue) = "get"
    /\ call' = [call EXCEPT ![p] =
                  [r EXCEPT !.result = r.view.store[r.storeName][r.key],
                            !.queue = Tail(r.queue)]]
    /\ UNCHANGED <<hostVars, openQ, txOrder, obsVars, histVars>>

readJsonComplete(p) ==
    LET r == call[p] IN
    /\ r.op = "readJson" /\ r.tx = "active" /\ r.queue = <<>>
    /\ call' = [call EXCEPT ![p] =
                  [r EXCEPT !.tx = "complete", !.status = "resolved",
                            !.db = "closed", !.view = NoView]]
    /\ txOrder' = Remove(txOrder, p)
    /\ UNCHANGED <<hostVars, openQ, obsVars, histVars>>

\* The get request or the transaction fails: the call rejects.
readJsonAbort(p) ==
    LET r == call[p] IN
    /\ r.op = "readJson" /\ TxLive(r)
    /\ call' = [call EXCEPT ![p] =
                  [r EXCEPT !.tx = "aborted", !.status = "rejected",
                            !.result = Undefined, !.queue = <<>>, !.view = NoView]]
    /\ txOrder' = Remove(txOrder, p)
    /\ UNCHANGED <<hostVars, openQ, obsVars, histVars>>

\* ------------------------------------------------------------ deleteKey
deleteKey(p, c, k) ==
    /\ Free(p)
    /\ Begin(p, [IdleCall EXCEPT !.op = "deleteKey", !.storeName = c, !.key = k,
                                 !.status = "pending"], TRUE)
    /\ UNCHANGED <<hostVars, txOrder, obsVars, writesOk, last>>

deleteKeyOpened(p) ==
    LET r == call[p]
        names == openDbStores(r.storeName)
    IN
    /\ openQ # <<>> /\ Head(openQ) = p
    /\ r.op = "deleteKey"
    /\ dbVersion' = Version
    /\ objectStoreNames' = names
    /\ openQ' = Tail(openQ)
    /\ IF r.storeName \in names
       THEN /\ call' = [call EXCEPT ![p] =
                          [r EXCEPT !.db = "open", !.tx = "created", !.queue = <<"delete">>]]
            /\ txOrder' = Append(txOrder, p)
       ELSE /\ call' = [call EXCEPT ![p] = [r EXCEPT !.db = "open", !.status = "rejected"]]
            /\ txOrder' = txOrder
    /\ UNCHANGED <<store, changeLog, keyGen, obsVars, histVars>>

\* Mutant of deleteKeyDelete: clear() instead of delete(key).
deleteKeyDelete_Clear(p) ==
    LET r == call[p] IN
    /\ r.op = "deleteKey" /\ r.tx = "active"
    /\ r.queue # <<>> /\ Head(r.queue) = "delete"
    /\ call' = [call EXCEPT ![p] =
                  [r EXCEPT !.view.store[r.storeName] = EmptyStore,
                            !.queue = Tail(r.queue)]]
    /\ UNCHANGED <<hostVars, openQ, txOrder, obsVars, histVars>>

\* tx.objectStore(storeName).delete(key)
deleteKeyDelete(p) ==
    LET r == call[p] IN
    /\ r.op = "deleteKey" /\ r.tx = "active"
    /\ r.queue # <<>> /\ Head(r.queue) = "delete"
    /\ call' = [call EXCEPT ![p] =
                  [r EXCEPT !.view.store[r.storeName][r.key] = Undefined,
                            !.queue = Tail(r.queue)]]
    /\ UNCHANGED <<hostVars, openQ, txOrder, obsVars, histVars>>

deleteKeyComplete(p) ==
    LET r == call[p] IN
    /\ r.op = "deleteKey" /\ r.tx = "active" /\ r.queue = <<>>
    /\ Commit(r.view, Scope(r.op, r.storeName))
    /\ call' = [call EXCEPT ![p] =
                  [r EXCEPT !.tx = "complete", !.status = "resolved",
                            !.db = "closed", !.view = NoView]]
    /\ txOrder' = Remove(txOrder, p)
    /\ last' = [last EXCEPT ![r.storeName][r.key] = [by |-> "deleteKey", value |-> Undefined]]
    /\ UNCHANGED <<openQ, obsVars, writesOk, remain>>

deleteKeyAbort(p) ==
    LET r == call[p] IN
    /\ r.op = "deleteKey" /\ TxLive(r)
    /\ call' = [call EXCEPT ![p] =
                  [r EXCEPT !.tx = "aborted", !.status = "rejected",
                            !.queue = <<>>, !.view = NoView]]
    /\ txOrder' = Remove(txOrder, p)
    /\ UNCHANGED <<hostVars, openQ, obsVars, histVars>>

ReadNext(p) ==
    \/ \E c \in StoreNames, k \in Keys : readJson(p, c, k)
    \/ openDbError(p)
    \/ TxStart(p)
    \/ readJsonOpened(p) \/ readJsonGet(p) \/ readJsonComplete(p) \/ readJsonAbort(p)

DeleteNext(p) ==
    \/ \E c \in StoreNames, k \in Keys : deleteKey(p, c, k)
    \/ openDbError(p)
    \/ TxStart(p)
    \/ deleteKeyOpened(p) \/ deleteKeyDelete(p) \/ deleteKeyComplete(p)
    \/ deleteKeyAbort(p)

WriteNext(p) ==
    \/ \E c \in StoreNames, k \in Keys, v \in Values : writeJson(p, c, k, v)
    \/ openDbError(p)
    \/ TxStart(p)
    \/ writeJsonOpened(p) \/ writeJsonPut(p) \/ writeJsonAdd(p)
    \/ writeJsonComplete(p) \/ writeJsonAbort(p)

KvNext == \E p \in Procs : WriteNext(p) \/ ReadNext(p) \/ DeleteNext(p)

\* The callers of the specifications that give each caller a role.
Writer == "p1"
Reader == "p2"

\* Single-key operations: both callers write, one also deletes, the other
\* also reads.
KvSpec ==
    Init /\ [][WriteNext(Writer) \/ DeleteNext(Writer)
                 \/ WriteNext(Reader) \/ ReadNext(Reader)]_vars

\* -------------------------------------------------- readMultipleRecords
readMultipleRecords(p, c, f) ==
    /\ Free(p)
    /\ Begin(p, [IdleCall EXCEPT !.op = "readMultipleRecords", !.storeName = c,
                                 !.filterFn = f, !.status = "pending",
                                 !.remaining = IF f = "all" THEN remain ELSE <<>>],
             FALSE)
    /\ UNCHANGED <<hostVars, txOrder, obsVars, writesOk, last>>

\* request.onerror: the open request fails and the promise rejects.
readMultipleRecordsOpenError(p) ==
    /\ openQ # <<>> /\ Head(openQ) = p
    /\ call[p].op = "readMultipleRecords"
    /\ call' = [call EXCEPT ![p].status = "rejected"]
    /\ openQ' = Tail(openQ)
    /\ UNCHANGED <<hostVars, txOrder, obsVars, histVars>>

\* request.onsuccess: indexedDB.open(dbName) has no upgrade hook, so a
\* database it creates has no stores; db.transaction then throws inside the
\* handler and the promise is never settled.
readMultipleRecordsOpened(p) ==
    LET r == call[p] IN
    /\ openQ # <<>> /\ Head(openQ) = p
    /\ r.op = "readMultipleRecords"
    /\ dbVersion' = Version
    /\ openQ' = Tail(openQ)
    /\ IF r.storeName \in objectStoreNames
       THEN /\ call' = [call EXCEPT ![p] =
                          [r EXCEPT !.db = "open", !.tx = "created", !.queue = <<"cursor">>]]
            /\ txOrder' = Append(txOrder, p)
       ELSE /\ call' = [call EXCEPT ![p] = [r EXCEPT !.db = "open"]]
            /\ txOrder' = txOrder
    /\ UNCHANGED <<objectStoreNames, store, changeLog, keyGen, obsVars, histVars>>

\* Mutant of readMultipleRecordsCursor: every value is collected, whatever
\* filterFn returns.
readMultipleRecordsCursor_NoFilter(p) ==
    LET r == call[p]
        i == NextRecord(r.view.store[r.storeName], r.cur)
        v == r.view.store[r.storeName][KeyOrder[i]]
    IN
    /\ r.op = "readMultipleRecords" /\ r.tx = "active"
    /\ r.queue # <<>> /\ Head(r.queue) = "cursor"
    /\ IF i = 0
       THEN /\ call' = [call EXCEPT ![p] = [r EXCEPT !.status = "resolved", !.queue = <<>>]]
            /\ txOrder' = txOrder
       ELSE IF FilterThrows(r.filterFn, v)
       THEN /\ call' = [call EXCEPT ![p] =
                          [r EXCEPT !.tx = "aborted", !.queue = <<>>, !.view = NoView]]
            /\ txOrder' = Remove(txOrder, p)
       ELSE /\ call' = [call EXCEPT ![p] =
                          [r EXCEPT !.records = Append(r.records, v), !.cur = i]]
            /\ txOrder' = txOrder
    /\ UNCHANGED <<hostVars, openQ, obsVars, histVars>>

\* The cursor request's onsuccess: collect the value when filterFn accepts it
\* and continue, or resolve with the records when the cursor is exhausted.
\* An exception thrown by filterFn in the handler aborts the transaction.
readMultipleRecordsCursor(p) ==
    LET r == call[p]
        i == NextRecord(r.view.store[r.storeName], r.cur)
        v == r.view.store[r.storeName][KeyOrder[i]]
    IN
    /\ r.op = "readMultipleRecords" /\ r.tx = "active"
    /\ r.queue # <<>> /\ Head(r.queue) = "cursor"
    /\ IF i = 0
       THEN /\ call' = [call EXCEPT ![p] = [r EXCEPT !.status = "resolved", !.queue = <<>>]]
            /\ txOrder' = txOrder
       ELSE IF FilterThrows(r.filterFn, v)
       THEN /\ call' = [call EXCEPT ![p] =
                          [r EXCEPT !.tx = "aborted", !.queue = <<>>, !.view = NoView]]
            /\ txOrder' = Remove(txOrder, p)
       ELSE /\ call' = [call EXCEPT ![p] =
                          [r EXCEPT !.records = IF FilterHolds(r.filterFn, v)
                                                THEN Append(r.records, v)
                                                ELSE r.records,
                                    !.cur = i]]
            /\ txOrder' = txOrder
    /\ UNCHANGED <<hostVars, openQ, obsVars, histVars>>

\* The read-only transaction completes; no handler is attached to it and the
\* database handle is not closed.
readMultipleRecordsComplete(p) ==
    LET r == call[p] IN
    /\ r.op = "readMultipleRecords" /\ r.tx = "active" /\ r.queue = <<>>
    /\ call' = [call EXCEPT ![p] = [r EXCEPT !.tx = "complete", !.view = NoView]]
    /\ txOrder' = Remove(txOrder, p)
    /\ UNCHANGED <<hostVars, openQ, obsVars, histVars>>

\* The transaction aborts: a pending cursor request gets an error event that
\* bubbles to transaction.onerror, which rejects; with no pending request only
\* the abort event fires, and nothing listens to it.
readMultipleRecordsAbort(p) ==
    LET r == call[p] IN
    /\ r.op = "readMultipleRecords" /\ TxLive(r)
    /\ call' = [call EXCEPT ![p] =
                  [r EXCEPT !.tx = "aborted",
                            !.status = IF r.queue # <<>> /\ r.status = "pending"
                                       THEN "rejected" ELSE r.status,
                            !.queue = <<>>, !.view = NoView]]
    /\ txOrder' = Remove(txOrder, p)
    /\ UNCHANGED <<hostVars, openQ, obsVars, histVars>>

\* ------------------------------------------------ deleteMultipleRecords
deleteMultipleRecords(p, c, f) ==
    /\ Free(p)
    /\ Begin(p, [IdleCall EXCEPT !.op = "deleteMultipleRecords", !.storeName = c,
                                 !.filterFn = f, !.status = "pending"], TRUE)
    /\ UNCHANGED <<hostVars, txOrder, obsVars, writesOk, last>>

deleteMultipleRecordsOpenError(p) ==
    /\ openQ # <<>> /\ Head(openQ) = p
    /\ call[p].op = "deleteMultipleRecords"
    /\ call' = [call EXCEPT ![p].status = "rejected"]
    /\ openQ' = Tail(openQ)
    /\ UNCHANGED <<hostVars, txOrder, obsVars, histVars>>

deleteMultipleRecordsOpened(p) ==
    LET r == call[p] IN
    /\ openQ # <<>> /\ Head(openQ) = p
    /\ r.op = "deleteMultipleRecords"
    /\ dbVersion' = Version
    /\ openQ' = Tail(openQ)
    /\ IF r.storeName \in objectStoreNames
       THEN /\ call' = [call EXCEPT ![p] =
                          [r EXCEPT !.db = "open", !.tx = "created", !.queue = <<"cursor">>]]
            /\ txOrder' = Append(txOrder, p)
       ELSE /\ call' = [call EXCEPT ![p] = [r EXCEPT !.db = "open"]]
            /\ txOrder' = txOrder
    /\ UNCHANGED <<objectStoreNames, store, changeLog, keyGen, obsVars, histVars>>

\* The cursor request's onsuccess: cursor.delete() when filterFn accepts the
\* value, then continue; resolve() as soon as the cursor is exhausted, which
\* is before the transaction commits.
deleteMultipleRecordsCursor(p) ==
    LET r == call[p]
        i == NextRecord(r.view.store[r.storeName], r.cur)
        v == r.view.store[r.storeName][KeyOrder[i]]
    IN
    /\ r.op = "deleteMultipleRecords" /\ r.tx = "active"
    /\ r.queue # <<>> /\ Head(r.queue) = "cursor"
    /\ IF i = 0
       THEN /\ call' = [call EXCEPT ![p] = [r EXCEPT !.status = "resolved", !.queue = <<>>]]
            /\ txOrder' = txOrder
            /\ remain' = IF \A q \in Procs \ {p} : ~Mutating(call[q])
                         THEN <<NotMatching(store[r.storeName], r.filterFn)>>
                         ELSE <<>>
       ELSE IF FilterThrows(r.filterFn, v)
       THEN /\ call' = [call EXCEPT ![p] =
                          [r EXCEPT !.tx = "aborted", !.queue = <<>>, !.view = NoView]]
            /\ txOrder' = Remove(txOrder, p)
            /\ remain' = remain
       ELSE /\ call' = [call EXCEPT ![p] =
                          [r EXCEPT !.view.store[r.storeName][KeyOrder[i]] =
                                        IF FilterHolds(r.filterFn, v) THEN Undefined ELSE v,
                                    !.cur = i]]
            /\ txOrder' = txOrder
            /\ remain' = remain
    /\ UNCHANGED <<hostVars, openQ, obsVars, writesOk, last>>

\* The read/write transaction commits; no handler is attached to it.
deleteMultipleRecordsComplete(p) ==
    LET r == call[p] IN
    /\ r.op = "deleteMultipleRecords" /\ r.tx = "active" /\ r.queue = <<>>
    /\ Commit(r.view, Scope(r.op, r.storeName))
    /\ call' = [call EXCEPT ![p] = [r EXCEPT !.tx = "complete", !.view = NoView]]
    /\ txOrder' = Remove(txOrder, p)
    /\ last' = [last EXCEPT ![r.storeName] =
                  [k \in Keys |->
                     IF @[k].value # Undefined /\ FilterHolds(r.filterFn, @[k].value)
                     THEN [by |-> "deleteMultipleRecords", value |-> Undefined]
                     ELSE @[k]]]
    /\ UNCHANGED <<openQ, obsVars, writesOk, remain>>

deleteMultipleRecordsAbort(p) ==
    LET r == call[p] IN
    /\ r.op = "deleteMultipleRecords" /\ TxLive(r)
    /\ call' = [call EXCEPT ![p] =
                  [r EXCEPT !.tx = "aborted",
                            !.status = IF r.queue # <<>> /\ r.status = "pending"
                                       THEN "rejected" ELSE r.status,
                            !.queue = <<>>, !.view = NoView]]
    /\ txOrder' = Remove(txOrder, p)
    /\ UNCHANGED <<hostVars, openQ, obsVars, histVars>>

ReadManyNext(p) ==
    \/ TxStart(p)
    \/ \E c \in StoreNames, f \in Filters : readMultipleRecords(p, c, f)
    \/ readMultipleRecordsOpenError(p) \/ readMultipleRecordsOpened(p)
    \/ readMultipleRecordsCursor(p) \/ readMultipleRecordsComplete(p)
    \/ readMultipleRecordsAbort(p)

DeleteManyNext(p) ==
    \/ TxStart(p)
    \/ \E c \in StoreNames, f \in Filters : deleteMultipleRecords(p, c, f)
    \/ deleteMultipleRecordsOpenError(p) \/ deleteMultipleRecordsOpened(p)
    \/ deleteMultipleRecordsCursor(p) \/ deleteMultipleRecordsComplete(p)
    \/ deleteMultipleRecordsAbort(p)

BulkNext == \E p \in Procs : ReadManyNext(p) \/ DeleteManyNext(p)

\* ------------------------------- onNewRecord / onNewRecordWithLog
\* The observer starts: seenChanges is empty and the first poll is issued.
onNewRecord(kind) ==
    /\ obs.pc = "off"
    /\ obs' = [IdleObs EXCEPT !.kind = kind, !.pc = "opening", !.n0 = Len(changeLog)]
    /\ openQ' = Append(openQ, Obs)
    /\ UNCHANGED <<hostVars, txOrder, call, notified, histVars>>

\* request.onsuccess of a poll: open the read-only transaction on changeLog.
\* When the store is missing db.transaction throws inside the handler, and
\* no next poll is scheduled.
pollOpened ==
    /\ openQ # <<>> /\ Head(openQ) = Obs
    /\ dbVersion' = Version
    /\ openQ' = Tail(openQ)
    /\ IF "changeLog" \in objectStoreNames
       THEN /\ obs' = [obs EXCEPT !.pc = "scan", !.db = "open", !.tx = "created"]
            /\ txOrder' = Append(txOrder, Obs)
       ELSE /\ obs' = [obs EXCEPT !.pc = "dead", !.db = "open"]
            /\ txOrder' = txOrder
    /\ UNCHANGED <<objectStoreNames, store, changeLog, keyGen, call, notified, histVars>>

\* The open request of a poll fails: onNewRecord has no onerror handler and
\* onNewRecordWithLog's only logs; neither schedules the next poll.
pollOpenError ==
    /\ openQ # <<>> /\ Head(openQ) = Obs
    /\ openQ' = Tail(openQ)
    /\ obs' = [obs EXCEPT !.pc = "dead"]
    /\ UNCHANGED <<hostVars, txOrder, call, notified, histVars>>

pollTxStart ==
    /\ obs.tx = "created"
    /\ CanStart(Obs)
    /\ obs' = [obs EXCEPT !.tx = "active", !.view = Snapshot({"changeLog"}), !.cur = 0,
                          !.nscan = IF obs.passes = 0 THEN Len(changeLog) ELSE obs.nscan]
    /\ UNCHANGED <<hostVars, openQ, txOrder, call, notified, histVars>>

\* Mutant of pollCursor: the primary key is not added to seenChanges.
pollCursor_NoSeen ==
    LET e == obs.view.changeLog[obs.cur + 1] IN
    /\ obs.tx = "active"
    /\ obs.cur < Len(obs.view.changeLog)
    /\ IF e.id \notin obs.seenChanges
       THEN /\ obs' = [obs EXCEPT !.cur = @ + 1]
            /\ notified' = Append(notified, [primaryKey |-> e.id, arg |-> e])
       ELSE /\ obs' = [obs EXCEPT !.cur = @ + 1]
            /\ notified' = notified
    /\ UNCHANGED <<hostVars, openQ, txOrder, call, histVars>>

\* Mutant of pollCursor: cursor.advance(2) instead of cursor.continue().
pollCursor_Advance2 ==
    LET e == obs.view.changeLog[obs.cur + 1]
        next == IF obs.cur + 2 <= Len(obs.view.changeLog)
                THEN obs.cur + 2 ELSE Len(obs.view.changeLog)
    IN
    /\ obs.tx = "active"
    /\ obs.cur < Len(obs.view.changeLog)
    /\ IF e.id \notin obs.seenChanges
       THEN /\ obs' = [obs EXCEPT !.seenChanges = @ \cup {e.id}, !.cur = next]
            /\ notified' = Append(notified, [primaryKey |-> e.id, arg |-> e])
       ELSE /\ obs' = [obs EXCEPT !.cur = next]
            /\ notified' = notified
    /\ UNCHANGED <<hostVars, openQ, txOrder, call, histVars>>

\* The cursor request's onsuccess on an entry: when its primary key is new,
\* remember it and call back with cursor.value; then continue.
pollCursor ==
    LET e == obs.view.changeLog[obs.cur + 1] IN
    /\ obs.tx = "active"
    /\ obs.cur < Len(obs.view.changeLog)
    /\ IF e.id \notin obs.seenChanges
       THEN /\ obs' = [obs EXCEPT !.seenChanges = @ \cup {e.id}, !.cur = @ + 1]
            /\ notified' = Append(notified, [primaryKey |-> e.id, arg |-> e])
       ELSE /\ obs' = [obs EXCEPT !.cur = @ + 1]
            /\ notified' = notified
    /\ UNCHANGED <<hostVars, openQ, txOrder, call, histVars>>

\* The cursor is exhausted and the transaction completes:
\* transaction.oncomplete schedules the next poll.
pollComplete ==
    /\ obs.tx = "active"
    /\ obs.cur = Len(obs.view.changeLog)
    /\ obs' = [obs EXCEPT !.pc = "scheduled", !.tx = "complete", !.view = NoView,
                          !.cur = 0, !.passes = IF @ < 2 THEN @ + 1 ELSE @]
    /\ txOrder' = Remove(txOrder, Obs)
    /\ UNCHANGED <<hostVars, openQ, call, notified, histVars>>

\* The poll's transaction aborts: oncomplete never fires, so no next poll is
\* scheduled (onNewRecordWithLog logs the error).
pollAbort ==
    /\ obs.tx \in {"created", "active"}
    /\ obs' = [obs EXCEPT !.pc = "dead", !.tx = "aborted", !.view = NoView, !.cur = 0]
    /\ txOrder' = Remove(txOrder, Obs)
    /\ UNCHANGED <<hostVars, openQ, call, notified, histVars>>

\* Mutant of pollForChanges: a periodic timer (setInterval) that fires
\* whether or not the previous pass has completed.
pollForChanges_Interval ==
    /\ obs.pc \in {"opening", "scan", "scheduled"}
    /\ Len(openQ) < 3
    /\ obs' = IF obs.pc = "scheduled"
              THEN [obs EXCEPT !.pc = "opening", !.tx = "none", !.db = "none"]
              ELSE obs
    /\ openQ' = Append(openQ, Obs)
    /\ UNCHANGED <<hostVars, txOrder, call, notified, histVars>>

\* The timer fires: pollForChanges runs again.
pollForChanges ==
    /\ obs.pc = "scheduled"
    /\ obs' = [obs EXCEPT !.pc = "opening", !.tx = "none", !.db = "none"]
    /\ openQ' = Append(openQ, Obs)
    /\ UNCHANGED <<hostVars, txOrder, call, notified, histVars>>

ObsNext ==
    \/ \E kind \in ObserverKinds : onNewRecord(kind)
    \/ pollOpened \/ pollOpenError \/ pollTxStart \/ pollCursor
    \/ pollComplete \/ pollAbort \/ pollForChanges

Next == KvNext \/ BulkNext \/ ObsNext

Spec == Init /\ [][Next]_vars

\* The bulk scans: one caller writes and deletes, the other reads.
BulkSpec == Init /\ [][WriteNext(Writer) \/ DeleteManyNext(Writer) \/ ReadManyNext(Reader)]_vars

\* The observer, with one caller writing.

NotifyNext == ObsNext \/ WriteNext(Writer)

NotifySpec == Init /\ [][NotifyNext]_vars

\* The same with the progress the timer and the host give: every request,
\* transaction and timer that can go on does so eventually.  A failure (an
\* open error, an abort) may happen, but is never bound to.
NotifyFair ==
    /\ WF_vars(pollOpened) /\ WF_vars(pollTxStart) /\ WF_vars(pollCursor)
    /\ WF_vars(pollComplete) /\ WF_vars(pollForChanges)
    /\ WF_vars(writeJsonOpened(Writer)) /\ WF_vars(TxStart(Writer))
    /\ WF_vars(writeJsonPut(Writer)) /\ WF_vars(writeJsonAdd(Writer))
    /\ WF_vars(writeJsonComplete(Writer))

NotifyLive == NotifySpec /\ NotifyFair

\* The bulk scans with the progress the host gives: an open request, a
\* transaction or a cursor request that can go on does so eventually.  A
\* failure may happen, but is never bound to.
BulkFair ==
    /\ \A p \in {Writer, Reader} : WF_vars(TxStart(p))
    /\ WF_vars(writeJsonOpened(Writer)) /\ WF_vars(writeJsonPut(Writer))
    /\ WF_vars(writeJsonAdd(Writer)) /\ WF_vars(writeJsonComplete(Writer))
    /\ WF_vars(deleteMultipleRecordsOpened(Writer))
    /\ WF_vars(deleteMultipleRecordsCursor(Writer))
    /\ WF_vars(deleteMultipleRecordsComplete(Writer))
    /\ WF_vars(readMultipleRecordsOpened(Reader))
    /\ WF_vars(readMultipleRecordsCursor(Reader))
    /\ WF_vars(readMultipleRecordsComplete(Reader))

BulkLive == BulkSpec /\ BulkFair

\* The operations that change records: both callers write, one also deletes
\* single keys and in bulk.
MutateSpec ==
    Init /\ [][WriteNext(Writer) \/ DeleteNext(Writer) \/ DeleteManyNext(Writer)
                 \/ WriteNext(Reader)]_vars

\* Every public operation in one specification: one caller issues the five
\* calls one after the other, on one key and with one selective filter, while
\* the observer polls.
LogKey == "k1"
LogFilters == {"idGt1"}

LogCalls(p) ==
    \/ \E c \in StoreNames, v \in Values : writeJson(p, c, LogKey, v)
    \/ \E c \in StoreNames : readJson(p, c, LogKey)
    \/ \E c \in StoreNames : deleteKey(p, c, LogKey)
    \/ \E c \in StoreNames, f \in LogFilters : readMultipleRecords(p, c, f)
    \/ \E c \in StoreNames, f \in LogFilters : deleteMultipleRecords(p, c, f)

CallSteps(p) ==
    \/ openDbError(p) \/ TxStart(p)
    \/ writeJsonOpened(p) \/ writeJsonPut(p) \/ writeJsonAdd(p)
    \/ writeJsonComplete(p) \/ writeJsonAbort(p)
    \/ readJsonOpened(p) \/ readJsonGet(p) \/ readJsonComplete(p) \/ readJsonAbort(p)
    \/ deleteKeyOpened(p) \/ deleteKeyDelete(p) \/ deleteKeyComplete(p)
    \/ deleteKeyAbort(p)
    \/ readMultipleRecordsOpenError(p) \/ readMultipleRecordsOpened(p)
    \/ readMultipleRecordsCursor(p) \/ readMultipleRecordsComplete(p)
    \/ readMultipleRecordsAbort(p)
    \/ deleteMultipleRecordsOpenError(p) \/ deleteMultipleRecordsOpened(p)
    \/ deleteMultipleRecordsCursor(p) \/ deleteMultipleRecordsComplete(p)
    \/ deleteMultipleRecordsAbort(p)

LogNext == LogCalls(Writer) \/ CallSteps(Writer) \/ ObsNext

LogSpec == Init /\ [][LogNext]_vars

\* ================================================================ claims
WriteResolves(p) ==
    call[p].op = "writeJson" /\ call[p].status = "pending" /\ call'[p].status = "resolved"

DeleteResolves(p) ==
    call[p].op = "deleteKey" /\ call[p].status = "pending" /\ call'[p].status = "resolved"

LastEntry(log) == log[Len(log)]

\* C1: every writeJson that resolves sets the record to the written value and
\* appends exactly one changeLog entry {store, key, value} whose id exceeds
\* every id already in the log; the log always has as many entries as there
\* were writes that resolved.
C1_DualWrite ==
    /\ [][\A p \in Procs :
            WriteResolves(p) =>
              LET r == call[p] IN
              /\ store'[r.storeName][r.key] = r.value
              /\ Len(changeLog') = Len(changeLog) + 1
              /\ SubSeq(changeLog', 1, Len(changeLog)) = changeLog
              /\ LastEntry(changeLog').store = r.storeName
              /\ LastEntry(changeLog').key = r.key
              /\ LastEntry(changeLog').value = r.value
              /\ \A i \in 1..Len(changeLog) : LastEntry(changeLog').id > changeLog[i].id]_vars
    /\ [](Len(changeLog) = writesOk)

\* C1 witness: a second write has resolved, its entry following an earlier one.
C1_Witness ==
    \E p \in Procs :
        /\ call[p].op = "writeJson" /\ call[p].status = "resolved"
        /\ Len(changeLog) = 2
        /\ LastEntry(changeLog).key = call[p].key
        /\ LastEntry(changeLog).value = call[p].value

\* C2: a writeJson whose transaction aborts rejects and leaves the records
\* and the changeLog as they were; no step other than a resolving writeJson
\* adds a log entry or stores a record value, a log entry is only ever added
\* together with its record, and every record present has a log entry.
C2_AllOrNothing ==
    /\ [][\A p \in Procs :
            (call[p].op = "writeJson" /\ TxLive(call[p]) /\ call'[p].tx = "aborted")
            => /\ call'[p].status = "rejected"
               /\ store' = store
               /\ changeLog' = changeLog]_vars
    /\ [][(\A p \in Procs : ~WriteResolves(p))
            => /\ changeLog' = changeLog
               /\ \A c \in StoreNames, k \in Keys :
                     store'[c][k] # store[c][k] => store'[c][k] = Undefined]_vars
    /\ [][changeLog' # changeLog
            => /\ Len(changeLog') > 0
               /\ LastEntry(changeLog').store \in StoreNames
               /\ store'[LastEntry(changeLog').store][LastEntry(changeLog').key]
                    = LastEntry(changeLog').value]_vars
    /\ [](\A c \in StoreNames, k \in Keys :
            store[c][k] # Undefined
            => \E i \in 1..Len(changeLog) :
                  /\ changeLog[i].store = c /\ changeLog[i].key = k
                  /\ changeLog[i].value = store[c][k])

\* C2 witness: a writeJson was rejected by an abort of its transaction, after
\* an earlier write had committed, and its value is not in the store.
C2_Witness ==
    \E p \in Procs :
        /\ call[p].op = "writeJson" /\ call[p].tx = "aborted"
        /\ call[p].status = "rejected"
        /\ Len(changeLog) > 0
        /\ store[call[p].storeName][call[p].key] # call[p].value

\* C3: a readJson that resolves returns the value of the last writeJson of
\* its key that had resolved when the read's transaction started (no delete
\* of the key having come in between).
C3_RoundTrip ==
    \A p \in Procs :
        (call[p].op = "readJson" /\ call[p].status = "resolved"
         /\ call[p].expect.by = "writeJson")
        => /\ call[p].result = call[p].expect.value
           /\ call[p].result \in Values

\* C3 witness: a key was written twice with different values and a read
\* returned the second value.
C3_Witness ==
    \E p \in Procs :
        /\ call[p].op = "readJson" /\ call[p].status = "resolved"
        /\ Len(changeLog) = 2
        /\ changeLog[1].key = call[p].key /\ changeLog[2].key = call[p].key
        /\ changeLog[1].value # changeLog[2].value
        /\ call[p].expect.by = "writeJson"
        /\ call[p].result = changeLog[2].value

\* C4: after a deleteKey resolved (and no later write of the key), readJson
\* returns undefined; a deleteKey that resolves removes its key and nothing
\* else, so on an absent key it leaves the collection unchanged.
C4_DeleteIdempotent ==
    /\ [](\A p \in Procs :
            (call[p].op = "readJson" /\ call[p].status = "resolved"
             /\ call[p].expect.by = "deleteKey")
            => call[p].result = Undefined)
    /\ [][\A p \in Procs :
            DeleteResolves(p) =>
              LET r == call[p] IN
              /\ store'[r.storeName][r.key] = Undefined
              /\ \A c \in StoreNames, k \in Keys :
                    (c # r.storeName \/ k # r.key) => store'[c][k] = store[c][k]
              /\ (store[r.storeName][r.key] = Undefined => store' = store)]_vars

\* C4 witness: a second deleteKey of a key that a first deleteKey had removed
\* has resolved while the other key still holds a record, and a readJson of
\* the deleted key returned undefined.
C4_Witness ==
    /\ call[Writer].op = "deleteKey" /\ call[Writer].status = "resolved"
    /\ call[Writer].expect.by = "deleteKey" /\ call[Writer].before = Undefined
    /\ \E k \in Keys : store[call[Writer].storeName][k] # Undefined
    /\ call[Reader].op = "readJson" /\ call[Reader].status = "resolved"
    /\ call[Reader].key = call[Writer].key
    /\ call[Reader].expect.by = "deleteKey" /\ call[Reader].result = Undefined

\* C5: a readMultipleRecords that resolves yields exactly the values that
\* filterFn accepts, in key order, of the collection as its transaction saw
\* it; no step of the call changes the records or the changeLog.
C5_ReadMany ==
    /\ [](\A p \in Procs :
            (call[p].op = "readMultipleRecords" /\ call[p].status = "resolved")
            => call[p].records = call[p].matches)
    /\ [][\A p \in Procs :
            (call[p].op = "readMultipleRecords" /\ call'[p].op = "readMultipleRecords"
             /\ call'[p] # call[p])
            => store' = store /\ changeLog' = changeLog]_vars

\* C5 witness: over the records {id: 1} and {id: 2} the filter id > 1
\* yielded [{id: 2}].
C5_Witness ==
    \E p \in Procs :
        /\ call[p].op = "readMultipleRecords" /\ call[p].status = "resolved"
        /\ call[p].filterFn = "idGt1" /\ call[p].tx = "active"
        /\ call[p].view.store[call[p].storeName]["k1"] = [id |-> 1]
        /\ call[p].view.store[call[p].storeName]["k2"] = [id |-> 2]
        /\ call[p].records = <<[id |-> 2]>>

\* C6: a readMultipleRecords with the always-true filter that is called
\* after a deleteMultipleRecords resolved (no other mutation in between)
\* returns exactly the records the delete's filter rejected, in key order.
C6_DeleteManyExact ==
    \A p \in Procs :
        (call[p].op = "readMultipleRecords" /\ call[p].filterFn = "all"
         /\ call[p].status = "resolved" /\ call[p].remaining # <<>>)
        => call[p].records = call[p].remaining[1]

\* The primary keys the observer's callback was called for, in order.
Delivered == [i \in 1..Len(notified) |-> notified[i].primaryKey]

\* C7: the observer calls back at most once for each changeLog entry id.
C7_AtMostOnce ==
    \A i, j \in 1..Len(notified) : i # j => Delivered[i] # Delivered[j]

\* C7 witness: two entries were delivered and the observer has completed at
\* least two poll passes.
C7_Witness == Len(notified) = 2 /\ obs.passes = 2

\* C8: when the first poll pass has completed, the callback was called
\* exactly once per entry that was committed when the pass's transaction
\* started, in ascending id order; these are exactly the N entries committed
\* before the observer started when no write committed in between.
C8_FirstPass ==
    (obs.passes = 1 /\ obs.pc = "scheduled")
    => /\ obs.nscan >= obs.n0
       /\ Len(notified) = obs.nscan
       /\ \A i \in 1..Len(notified) : Delivered[i] = changeLog[i].id
       /\ \A i, j \in 1..Len(notified) : i < j => Delivered[i] < Delivered[j]
       /\ (obs.nscan = obs.n0 => Len(notified) = obs.n0)

\* C8 witness: two writes had committed before the observer started and its
\* first pass delivered both.
C8_Witness ==
    /\ obs.passes = 1 /\ obs.pc = "scheduled"
    /\ obs.n0 = 2 /\ Len(notified) = 2

\* C9: once the observer is started, every committed changeLog entry is
\* eventually delivered to the callback.
C9_EventualDelivery ==
    \A n \in 1..MaxLog :
        (obs.pc # "off" /\ Len(changeLog) >= n)
        ~> (/\ Len(changeLog) >= n
            /\ \E i \in 1..Len(notified) : Delivered[i] = changeLog[n].id)

\* C10: the callback receives the value field of each new entry, that is the
\* record value that was written.
C10_Payload ==
    \A i \in 1..Len(notified) :
        \E n \in 1..Len(changeLog) :
            /\ changeLog[n].id = Delivered[i]
            /\ notified[i].arg = changeLog[n].value

\* C11: a started observer never stops: in every state either a poll pass is
\* in progress (its open request or its changeLog transaction) or the next
\* poll is scheduled; a failed pass is followed by a scheduled poll.
C11_LoopNeverStops ==
    obs.pc # "off" => obs.pc \in {"opening", "scan", "scheduled"}

\* The steps of a deleteKey or deleteMultipleRecords call of caller p.
DeleteSteps(p) ==
    /\ call[p].op \in {"deleteKey", "deleteMultipleRecords"}
    /\ call'[p].op = call[p].op
    /\ call'[p] # call[p]

\* C12: the changeLog is append-only: whatever operation takes a step, every
\* entry in the log stays in it at its place with the same id, store, key and
\* value; no step of a deleteKey or a deleteMultipleRecords adds or removes an
\* entry, and neither does a step of an observer poll.
C12_AppendOnly ==
    /\ [][/\ Len(changeLog') >= Len(changeLog)
          /\ \A i \in 1..Len(changeLog) : changeLog'[i] = changeLog[i]]_vars
    /\ [][(\E p \in Procs : DeleteSteps(p)) => changeLog' = changeLog]_vars
    /\ [][obs' # obs => changeLog' = changeLog]_vars

\* C12 witness: with two entries in the log for the key, a deleteKey has
\* removed the record, the observer has been notified of both entries, and
\* both entries are still in the log.
C12_Witness ==
    /\ Len(changeLog) = 2
    /\ call[Writer].op = "deleteKey" /\ call[Writer].status = "resolved"
    /\ call[Writer].before # Undefined
    /\ store[call[Writer].storeName][call[Writer].key] = Undefined
    /\ changeLog[1].key = call[Writer].key /\ changeLog[2].key = call[Writer].key
    /\ Len(notified) = 2

\* The database handles that are open: those of the callers' current calls
\* and that of the observer's current poll pass.
OpenHandles ==
    Cardinality({p \in Procs : call[p].db = "open"}) + (IF obs.db = "open" THEN 1 ELSE 0)

\* C13: an operation that has completed, by success or by failure, has closed
\* the database handle it opened, and so has a poll pass of the observer that
\* has ended; when no operation is in flight no handle is open.
C13_HandleRelease ==
    /\ \A p \in Procs :
          (call[p].status \in {"resolved", "rejected"} /\ ~TxLive(call[p]))
          => call[p].db # "open"
    /\ obs.pc \in {"scheduled", "dead"} => obs.db # "open"
    /\ ((\A p \in Procs : Free(p)) /\ obs.pc \in {"off", "scheduled", "dead"})
       => OpenHandles = 0

\* C14: whichever operation was the first to open the database, once the
\* database exists it holds the record collection and the changeLog, and so
\* no writeJson fails on db.transaction for a missing collection.
C14_Provisioning ==
    /\ dbVersion # 0 => (StoreNames \cup {"changeLog"}) \subseteq objectStoreNames
    /\ \A p \in Procs :
          ~(/\ call[p].op = "writeJson" /\ call[p].status = "rejected"
            /\ call[p].db = "open" /\ call[p].tx = "none")

\* The cursor of caller p's bulk scan stands on a record on which filterFn
\* throws.
PredicateThrows(p) ==
    LET r == call[p]
        i == NextRecord(r.view.store[r.storeName], r.cur)
    IN
    /\ r.op \in {"readMultipleRecords", "deleteMultipleRecords"}
    /\ r.tx = "active" /\ r.status = "pending"
    /\ i # 0
    /\ FilterThrows(r.filterFn, r.view.store[r.storeName][KeyOrder[i]])

\* C15: when the predicate throws on a record during readMultipleRecords or
\* deleteMultipleRecords, the call eventually rejects; it does not resolve
\* and does not stay pending forever.
C15_PredicateFailure ==
    \A p \in Procs : PredicateThrows(p) ~> (call[p].status = "rejected")

\* A deleteMultipleRecords call of caller p whose predicate does not throw.
DeleteMany(p) ==
    call[p].op = "deleteMultipleRecords" /\ call[p].filterFn \in {"all", "idGt1"}

\* C16: when the transaction of a deleteMultipleRecords aborts on a host
\* failure, during or after the scan, no record is removed and the call
\* rejects; a call never stands resolved over a transaction that aborted.
C16_AllOrNothing ==
    /\ [][\A p \in Procs :
            (DeleteMany(p) /\ TxLive(call[p]) /\ call'[p].tx = "aborted")
            => store' = store /\ call'[p].status = "rejected"]_vars
    /\ [](\A p \in Procs :
            (DeleteMany(p) /\ call[p].status = "resolved") => call[p].tx # "aborted")

\* The log holds an entry for the write of caller p's current call.
Logged(log, p) ==
    \E i \in 1..Len(log) :
        /\ log[i].store = call[p].storeName
        /\ log[i].key = call[p].key
        /\ log[i].value = call[p].value

\* C17: writeJson resolves in the step in which the host completes its
\* transaction and not before; in that step the record and the log entry
\* become part of the committed state, and the transaction of every observer
\* poll that starts while a write stands resolved sees that write's entry.
C17_ResolveAfterCommit ==
    /\ [][\A p \in Procs :
            WriteResolves(p) =>
              /\ call[p].tx = "active" /\ call'[p].tx = "complete"
              /\ store'[call[p].storeName][call[p].key] = call[p].value
              /\ Logged(changeLog', p)]_vars
    /\ [](\A p \in Procs :
            (call[p].op = "writeJson" /\ call[p].status = "resolved")
            => call[p].tx = "complete" /\ Logged(changeLog, p))
    /\ [][(obs.tx = "created" /\ obs'.tx = "active")
            => \A p \in Procs :
                  (call[p].op = "writeJson" /\ call[p].status = "resolved")
                  => Logged(obs'.view.changeLog, p)]_vars

\* C17 witness: the second write has resolved and a poll pass that started
\* afterwards has its entry in view and has delivered it.
C17_Witness ==
    /\ call[Writer].op = "writeJson" /\ call[Writer].status = "resolved"
    /\ Len(changeLog) = 2
    /\ LastEntry(changeLog).key = call[Writer].key
    /\ LastEntry(changeLog).value = call[Writer].value
    /\ obs.tx = "active" /\ obs.passes >= 1
    /\ obs.view.changeLog = changeLog
    /\ \E i \in 1..Len(notified) : notified[i].primaryKey = LastEntry(changeLog).id

\* C18: the transactions of writeJson calls that are in flight at once are
\* serialized: at most one of them is active at a time; each commit appends
\* its entry behind every entry committed before, with a larger id, so the
\* ids in the log ascend in commit order and no two entries share an id.
C18_CommitOrder ==
    /\ [](\A p, q \in Procs :
            (p # q /\ call[p].op = "writeJson" /\ call[q].op = "writeJson")
            => ~(call[p].tx = "active" /\ call[q].tx = "active"))
    /\ [][changeLog' # changeLog
            => /\ Len(changeLog') = Len(changeLog) + 1
               /\ SubSeq(changeLog', 1, Len(changeLog)) = changeLog
               /\ \A i \in 1..Len(changeLog) :
                     changeLog[i].id < changeLog'[Len(changeLog')].id]_vars
    /\ [](\A i, j \in 1..Len(changeLog) :
            (i < j => changeLog[i].id < changeLog[j].id)
            /\ (i # j => changeLog[i].id # changeLog[j].id))

\* C18 witness: two writeJson calls are in flight at once; the transaction
\* of one is active and has added its entry, the other's has been created
\* and is held back by the host.
C18_Witness ==
    \E p, q \in Procs :
        /\ p # q
        /\ call[p].op = "writeJson" /\ call[p].tx = "active"
        /\ Len(call[p].view.changeLog) = 1
        /\ call[q].op = "writeJson" /\ call[q].tx = "created"
        /\ ~CanStart(q)

\* Entry i of the log is the one with the highest id for key k of store c.
Highest(i, c, k) ==
    /\ changeLog[i].store = c /\ changeLog[i].key = k
    /\ \A j \in 1..Len(changeLog) :
          (changeLog[j].store = c /\ changeLog[j].key = k)
          => changeLog[j].id <= changeLog[i].id

\* C19: in every committed state, whatever writes, deletes and bulk deletes
\* have run, each record present holds exactly the value of the highest-id
\* changeLog entry of its store and key; so no record is present without a
\* log entry for it.
C19_RecordLogConsistent ==
    \A c \in StoreNames, k \in Keys :
        store[c][k] # Undefined
        => \E i \in 1..Len(changeLog) :
              Highest(i, c, k) /\ changeLog[i].value = store[c][k]

\* C19 witness: a key was written twice with different values, a bulk delete
\* whose filter spared it has committed, and the record holds the value of
\* the later entry.
C19_Witness ==
    \E k \in Keys :
        /\ Len(changeLog) = 2
        /\ changeLog[1].key = k /\ changeLog[2].key = k
        /\ changeLog[1].value # changeLog[2].value
        /\ call[Writer].op = "deleteMultipleRecords" /\ call[Writer].tx = "complete"
        /\ store[call[Writer].storeName][k] = changeLog[2].value

\* How often w occurs in the sequence q.
Count(q, w) == Cardinality({i \in 1..Len(q) : q[i] = w})

\* The observer's poll passes that are in progress (an open request pending,
\* a changeLog transaction live) or scheduled.
PollPasses ==
    Count(openQ, Obs) + Count(txOrder, Obs) + (IF obs.pc = "scheduled" THEN 1 ELSE 0)

\* C20: at most one poll pass of the observer is in progress or scheduled at
\* any time; the next poll is scheduled only in the step in which the
\* current pass's changeLog transaction completes, and a pass begins only
\* from the start of the observer or from a scheduled poll.
C20_NoOverlap ==
    /\ [](PollPasses <= 1)
    /\ [][(obs'.pc = "scheduled" /\ obs.pc # "scheduled")
            => obs.tx = "active" /\ obs'.tx = "complete"]_vars
    /\ [][Count(openQ', Obs) > Count(openQ, Obs)
            => obs.pc \in {"off", "scheduled"} /\ PollPasses' = 1]_vars

\* C20 witness: after two completed passes the third pass is scanning a log
\* with entries while a write is in flight.
C20_Witness ==
    /\ obs.passes = 2 /\ obs.tx = "active" /\ obs.cur = 1
    /\ Len(obs.view.changeLog) = 1
    /\ call[Writer].op = "writeJson" /\ call[Writer].tx = "active"
    /\ PollPasses = 1

====
